---- MODULE Spec2Model ----
(***************************************************************************)
(* Model of app.py, the Streamlit "Ad Vendor Evaluation Simulator".        *)
(*                                                                         *)
(* One run of the script is a sequence of steps (pc): page header, cached  *)
(* CSV load, sidebar controls, weight normalisation, health recomputation, *)
(* then the four page sections.  A change of a control reruns the script.  *)
(*                                                                         *)
(* Numbers are exact rationals <<n, d>> with d > 0; <<0, 0>> is the NaN    *)
(* that pandas puts in the cells a join leaves unmatched.  Rates are read  *)
(* from the files as percentages over 100 (0.8 is <<4, 5>>).               *)
(* Columns that no computation reads (DT, CTR, AVG_LATENCY_HOURS) are not  *)
(* carried.                                                                *)
(***************************************************************************)
EXTENDS Integers, Sequences, FiniteSets, TLC

\* ------------------------------------------------------------- bounds ---
MaxRows == 2        \* rows of the file a scenario varies
MaxHealth == 2      \* rows of health.csv in the scenarios that vary it

\* ---------------------------------------------------------- rationals ---
RECURSIVE GCD(_, _)
GCD(a, b) == IF b = 0 THEN a ELSE GCD(b, a % b)

Abs(n) == IF n < 0 THEN 0 - n ELSE n

NaN == <<0, 0>>

IsNaN(a) == a[2] = 0

Norm(n, d) ==
    LET g == GCD(Abs(n), Abs(d))
        s == IF d < 0 THEN 0 - 1 ELSE 1
    IN  IF d = 0 THEN NaN ELSE <<s * (n \div g), s * (d \div g)>>

R(n) == <<n, 1>>

Pct(n) == Norm(n, 100)

RAdd(a, b) ==
    IF IsNaN(a) \/ IsNaN(b) THEN NaN
    ELSE Norm(a[1] * b[2] + b[1] * a[2], a[2] * b[2])

RSub(a, b) ==
    IF IsNaN(a) \/ IsNaN(b) THEN NaN
    ELSE Norm(a[1] * b[2] - b[1] * a[2], a[2] * b[2])

RMul(a, b) ==
    IF IsNaN(a) \/ IsNaN(b) THEN NaN
    ELSE Norm(a[1] * b[1], a[2] * b[2])

\* b is never zero where the script divides a column; the one scalar
\* division that can meet a zero divisor is guarded in Normalize.
RDiv(a, b) ==
    IF IsNaN(a) \/ IsNaN(b) THEN NaN
    ELSE Norm(a[1] * b[2], a[2] * b[1])

RLe(a, b) == a[1] * b[2] <= b[1] * a[2]

RLt(a, b) == a[1] * b[2] < b[1] * a[2]

\* -------------------------------------------------------- input files ---
Vendors == {"V1", "V2"}

HealthVendors == {"V1", "V2", "V3"}

Months == {1, 2}

HealthRows == [VENDOR_ID : HealthVendors]

IdentityRows ==
    { [VENDOR_ID |-> v, MATCH_RATE |-> Pct(p[1]), OVERLAP |-> Pct(p[2])] :
        v \in Vendors, p \in {<<80, 50>>, <<100, 100>>} }

DeliveryRows ==
    { [VENDOR_ID |-> v, CPM |-> R(p[1]), VIEWABILITY |-> Pct(p[2])] :
        v \in Vendors, p \in {<<10, 70>>, <<30, 20>>} }

FinanceRows ==
    { [MONTH |-> m, VENDOR_ID |-> v, INVOICED_USD |-> R(1200),
       DISPUTE_RATE |-> Pct(IF m = 1 THEN 5 ELSE 50)] :
        m \in Months, v \in Vendors }

BudgetRows ==
    { [MONTH |-> m, VENDOR_ID |-> v, BUDGET_ALLOCATED_USD |-> R(1000)] :
        m \in Months, v \in Vendors }

SeqsUpTo(S, n) == UNION { [1..k -> S] : k \in 0..n }

\* the files every scenario starts from; each scenario replaces one file
BaseHealth == << [VENDOR_ID |-> "V1"], [VENDOR_ID |-> "V2"],
                 [VENDOR_ID |-> "V3"] >>

BaseIdentity ==
    << [VENDOR_ID |-> "V1", MATCH_RATE |-> Pct(80), OVERLAP |-> Pct(50)] >>

BaseDelivery ==
    << [VENDOR_ID |-> "V1", CPM |-> R(10), VIEWABILITY |-> Pct(70)] >>

BaseFinance ==
    << [MONTH |-> 1, VENDOR_ID |-> "V1", INVOICED_USD |-> R(1200),
        DISPUTE_RATE |-> Pct(5)],
       [MONTH |-> 2, VENDOR_ID |-> "V2", INVOICED_USD |-> R(1200),
        DISPUTE_RATE |-> Pct(50)] >>

BaseBudgets ==
    << [MONTH |-> 1, VENDOR_ID |-> "V1", BUDGET_ALLOCATED_USD |-> R(1000)] >>

\* --------------------------------------------------------------- state ---
VARIABLES health, delivery, finance, identity, budgets,
          cached, pc, sel_vendors, raw, weights, dyn, finance_summary,
          page, error

files == <<health, delivery, finance, identity, budgets>>

vars == <<health, delivery, finance, identity, budgets,
          cached, pc, sel_vendors, raw, weights, dyn, finance_summary,
          page, error>>

Init ==
    /\ \/ /\ health \in SeqsUpTo(HealthRows, MaxHealth)
          /\ identity = BaseIdentity /\ delivery = BaseDelivery
          /\ finance = BaseFinance /\ budgets = BaseBudgets
       \/ /\ identity \in SeqsUpTo(IdentityRows, MaxRows)
          /\ health = BaseHealth /\ delivery = BaseDelivery
          /\ finance = BaseFinance /\ budgets = BaseBudgets
       \/ /\ delivery \in SeqsUpTo(DeliveryRows, MaxRows)
          /\ health = BaseHealth /\ identity = BaseIdentity
          /\ finance = BaseFinance /\ budgets = BaseBudgets
       \/ /\ finance \in SeqsUpTo(FinanceRows, MaxRows)
          /\ health = BaseHealth /\ identity = BaseIdentity
          /\ delivery = BaseDelivery /\ budgets = BaseBudgets
       \/ /\ budgets \in SeqsUpTo(BudgetRows, MaxRows)
          /\ health = BaseHealth /\ identity = BaseIdentity
          /\ delivery = BaseDelivery /\ finance = BaseFinance
    /\ cached = FALSE
    /\ pc = "start"
    /\ sel_vendors = {}
    /\ raw = <<>>
    /\ weights = <<>>
    /\ dyn = <<>>
    /\ finance_summary = <<>>
    /\ page = <<>>
    /\ error = "none"

Element(kind, rows) == [el |-> kind, rows |-> rows]

\* lines 8-10: page configuration, title and caption
SetPage ==
    /\ pc = "start"
    /\ page' = <<Element("title", <<>>), Element("caption", <<>>)>>
    /\ pc' = "load"
    /\ UNCHANGED <<files, cached, sel_vendors, raw, weights, dyn,
                   finance_summary, error>>

\* lines 14-23: load_csvs() under st.cache_data.  A cached result is
\* returned without touching the files; otherwise the five reads run in
\* order and the first file that is missing or malformed raises, which ends
\* the run with nothing cached.
Load ==
    /\ pc = "load"
    /\ \/ /\ cached
          /\ pc' = "controls"
          /\ UNCHANGED <<cached, error>>
       \/ /\ ~cached
          /\ \E bad \in SUBSET (1..5) :
                IF bad = {}
                THEN /\ cached' = TRUE
                     /\ pc' = "controls"
                     /\ error' = "none"
                ELSE /\ cached' = FALSE
                     /\ pc' = "aborted"
                     /\ error' = "load"
    /\ UNCHANGED <<files, sel_vendors, raw, weights, dyn, finance_summary,
                   page>>

\* ------------------------------------------------------------ controls ---
SliderMin == 0

SliderMax == 100

DefaultWeights == <<30, 15, 25, 20, 10>>

\* the values the five sliders can return in a run: the defaults, or every
\* slider at one of its two ends (hundredths, as the 0.01 step gives them)
WeightChoices == {DefaultWeights} \cup [1..5 -> {SliderMin, SliderMax}]

\* line 27: health["VENDOR_ID"].unique()
vendors_all == { health[i].VENDOR_ID : i \in DOMAIN health }

\* lines 26-35: the sidebar; the multiselect offers vendors_all and returns
\* a subset of it, each slider returns a float in [0, 1]
Controls ==
    /\ pc = "controls"
    /\ \E sel \in SUBSET vendors_all, w \in WeightChoices :
          /\ sel_vendors' = sel
          /\ raw' = [i \in 1..5 |-> Pct(w[i])]
    /\ page' = Append(page, Element("sidebar", <<>>))
    /\ pc' = "normalize"
    /\ UNCHANGED <<files, cached, weights, dyn, finance_summary, error>>

RECURSIVE SumTo(_, _)
SumTo(f, n) == IF n = 0 THEN R(0) ELSE RAdd(SumTo(f, n - 1), f[n])

\* sum(weights), line 38
SumSeq(f) == SumTo(f, Len(f))

\* lines 37-38: weights = [w/sum(weights) for w in weights]; Python's float
\* division raises ZeroDivisionError on a zero divisor
Normalize ==
    /\ pc = "normalize"
    /\ IF SumSeq(raw) = R(0)
       THEN /\ pc' = "aborted"
            /\ error' = "ZeroDivisionError"
            /\ UNCHANGED weights
       ELSE /\ weights' = [i \in 1..5 |-> RDiv(raw[i], SumSeq(raw))]
            /\ pc' = "recompute"
            /\ UNCHANGED error
    /\ UNCHANGED <<files, cached, sel_vendors, raw, dyn, finance_summary,
                   page>>

\* ------------------------------------------------------------- joining ---
RECURSIVE Flatten(_, _)
Flatten(ss, n) == IF n = 0 THEN <<>> ELSE Flatten(ss, n - 1) \o ss[n]

Matching(rows, v) == SelectSeq(rows, LAMBDA r : r.VENDOR_ID = v)

\* the same merge with how="inner": health rows without an identity row are
\* dropped
InnerMerge(left, right) ==
    Flatten([i \in DOMAIN right |-> Matching(left, right[i].VENDOR_ID)],
            Len(right))

\* identity.merge(health[["VENDOR_ID"]], on="VENDOR_ID", how="right"):
\* every health row, in health order, once per identity row of its vendor,
\* or once with empty identity cells when there is none
RightMerge(left, right) ==
    LET rowsOf(i) ==
            LET m == Matching(left, right[i].VENDOR_ID)
            IN  IF m = <<>>
                THEN << [VENDOR_ID |-> right[i].VENDOR_ID,
                         MATCH_RATE |-> NaN, OVERLAP |-> NaN] >>
                ELSE m
    IN  Flatten([i \in DOMAIN right |-> rowsOf(i)], Len(right))

\* the frame with .fillna(0) left out
NoFillNa(rows) == rows

\* .fillna(0)
FillNa(rows) ==
    [i \in DOMAIN rows |->
        [f \in DOMAIN rows[i] |->
            IF f = "VENDOR_ID" THEN rows[i][f]
            ELSE IF IsNaN(rows[i][f]) THEN R(0) ELSE rows[i][f]]]

\* groupby("VENDOR_ID", as_index=False)[col].mean(), read at one vendor
GroupMean(rows, col, v) ==
    LET m == Matching(rows, v)
    IN  RDiv(SumSeq([i \in DOMAIN m |-> m[i][col]]), R(Len(m)))

\* the merge with the raw rows of source instead of their group means: one
\* row per source row of the vendor
LeftMergeRows(rows, source, col) ==
    LET rowsOf(i) ==
            LET m == Matching(source, rows[i].VENDOR_ID)
                with(x) == [f \in DOMAIN rows[i] \cup {col} |->
                               IF f # col THEN rows[i][f] ELSE x]
            IN  IF m = <<>> THEN << with(NaN) >>
                ELSE [k \in DOMAIN m |-> with(m[k][col])]
    IN  Flatten([i \in DOMAIN rows |-> rowsOf(i)], Len(rows))

\* dyn.merge(<group means of col>, on="VENDOR_ID", how="left"): the group
\* means have one row per vendor, so every row of dyn is kept once
LeftMergeMean(rows, source, col) ==
    [i \in DOMAIN rows |->
        [f \in DOMAIN rows[i] \cup {col} |->
            IF f # col THEN rows[i][f]
            ELSE IF Matching(source, rows[i].VENDOR_ID) = <<>> THEN NaN
                 ELSE GroupMean(source, col, rows[i].VENDOR_ID)]]

\* lines 41-47
Joined ==
    LET d1 == FillNa(RightMerge(identity, health))
        d2 == FillNa(LeftMergeMean(d1, finance, "DISPUTE_RATE"))
        d3 == FillNa(LeftMergeMean(d2, delivery, "CPM"))
    IN  FillNa(LeftMergeMean(d3, delivery, "VIEWABILITY"))

\* ------------------------------------------------------------- scoring ---
TargetCPM == 15

MatchTerm(w, r) == RMul(w[1], r.MATCH_RATE)

OverlapTerm(w, r) == RMul(w[2], r.OVERLAP)

CpmTerm(w, r) == RMul(w[3], RSub(R(1), RDiv(r.CPM, R(TargetCPM))))

ViewTerm(w, r) ==
    RMul(w[4], RDiv(RSub(r.VIEWABILITY, <<1, 2>>), <<1, 2>>))

DisputeTerm(w, r) == RMul(w[5], RSub(R(1), r.DISPUTE_RATE))

PreClip(w, r) ==
    RAdd(RAdd(RAdd(RAdd(MatchTerm(w, r), OverlapTerm(w, r)),
                   CpmTerm(w, r)), ViewTerm(w, r)), DisputeTerm(w, r))

\* the sum taken without .clip(0, 1)
NoClip(x) == x

\* Series.clip(0, 1)
Clip01(x) == IF RLt(x, R(0)) THEN R(0) ELSE IF RLt(R(1), x) THEN R(1) ELSE x

\* lines 49-55
Score(w, r) == RMul(Clip01(PreClip(w, r)), R(100))

\* the frame after line 55; idx is the row label of the frame's index, which
\* filtering and sorting carry along
Scored(w) ==
    LET j == Joined
    IN  [i \in DOMAIN j |->
            [f \in DOMAIN j[i] \cup {"HEALTH_SCORE_DYNAMIC", "idx"} |->
                IF f = "HEALTH_SCORE_DYNAMIC" THEN Score(w, j[i])
                ELSE IF f = "idx" THEN i - 1
                ELSE j[i][f]]]

\* ------------------------------------------------------ filter and sort ---
\* dyn[dyn["VENDOR_ID"].isin(sel_vendors)]
IsIn(rows, sel) == SelectSeq(rows, LAMBDA r : r.VENDOR_ID \in sel)

Perms(n) ==
    { p \in [1..n -> 1..n] : \A i, j \in 1..n : p[i] = p[j] => i = j }

\* the order ascending=True would give
Ascending(rows) ==
    \A i \in 1..(Len(rows) - 1) :
        RLe(rows[i].HEALTH_SCORE_DYNAMIC, rows[i + 1].HEALTH_SCORE_DYNAMIC)

Descending(rows) ==
    \A i \in 1..(Len(rows) - 1) :
        RLe(rows[i + 1].HEALTH_SCORE_DYNAMIC, rows[i].HEALTH_SCORE_DYNAMIC)

\* sort_values("HEALTH_SCORE_DYNAMIC", ascending=False) with the default
\* kind="quicksort", which numpy does not promise to be stable: any
\* descending arrangement of the rows is a possible result
SortValues(rows) ==
    { s \in { [i \in DOMAIN rows |-> rows[p[i]]] : p \in Perms(Len(rows)) } :
        Descending(s) }

\* lines 41-57
Recompute ==
    /\ pc = "recompute"
    /\ dyn' \in SortValues(IsIn(Scored(weights), sel_vendors))
    /\ pc' = "kpis"
    /\ UNCHANGED <<files, cached, sel_vendors, raw, weights, finance_summary,
                   page, error>>

\* ----------------------------------------------------------- rendering ---
\* f"{x:.1f}" of a non-negative x: rounded to one decimal, halves to the
\* even digit; the result is the number of tenths shown
Fmt1(x) ==
    IF IsNaN(x) THEN 0 - 1      \* stands for the text "nan"
    ELSE LET q == (x[1] * 10) \div x[2]
             m == (x[1] * 10) % x[2]
         IN  IF 2 * m > x[2] THEN q + 1
             ELSE IF 2 * m = x[2] THEN q + (q % 2)
             ELSE q

RECURSIVE MaxTo(_, _)
MaxTo(f, n) ==
    IF n = 1 THEN f[1]
    ELSE LET m == MaxTo(f, n - 1) IN IF RLt(m, f[n]) THEN f[n] ELSE m

Scores(rows) == [i \in DOMAIN rows |-> rows[i].HEALTH_SCORE_DYNAMIC]

\* lines 60-63: the three metric cards; an empty frame shows a dash in each
\* card, which the model writes as a metrics element without rows
Metrics(rows) ==
    IF rows = <<>> THEN <<>>
    ELSE << [top_vendor |-> rows[1].VENDOR_ID,
             top_score  |-> Fmt1(MaxTo(Scores(rows), Len(rows))),
             avg_score  |-> Fmt1(RDiv(SumSeq(Scores(rows)), R(Len(rows))))] >>

\* lines 67-69: dyn[["VENDOR_ID","HEALTH_SCORE_DYNAMIC"]].rename(...)
HealthTable(rows) ==
    [i \in DOMAIN rows |->
        [Vendor |-> rows[i].VENDOR_ID,
         HealthScore |-> rows[i].HEALTH_SCORE_DYNAMIC]]

\* lines 59-69
RenderHealth ==
    /\ pc = "kpis"
    /\ page' = page \o << Element("metrics", Metrics(dyn)),
                          Element("health_table", HealthTable(dyn)) >>
    /\ pc' = "delivery"
    /\ UNCHANGED <<files, cached, sel_vendors, raw, weights, dyn,
                   finance_summary, error>>

\* lines 71-83: the CPM line chart of the selected vendors' delivery rows,
\* or the "No delivery data for selected vendors." notice
RenderDelivery ==
    /\ pc = "delivery"
    /\ LET delivery_sel == IsIn(delivery, sel_vendors)
       IN  page' = Append(page,
                     IF delivery_sel # <<>>
                     THEN Element("delivery_chart", delivery_sel)
                     ELSE Element("info", <<>>))
    /\ pc' = "finance"
    /\ UNCHANGED <<files, cached, sel_vendors, raw, weights, dyn,
                   finance_summary, error>>

\* finance.merge(budgets, on=["MONTH","VENDOR_ID"], how="left"): every
\* finance row, in order, once per budget row of its month and vendor, or
\* once with an empty budget cell when there is none
LeftMergeBudgets(left, right) ==
    LET withBudget(r, b) ==
            [MONTH |-> r.MONTH, VENDOR_ID |-> r.VENDOR_ID,
             INVOICED_USD |-> r.INVOICED_USD,
             DISPUTE_RATE |-> r.DISPUTE_RATE,
             BUDGET_ALLOCATED_USD |-> b]
        rowsOf(i) ==
            LET m == SelectSeq(right, LAMBDA b :
                        b.MONTH = left[i].MONTH
                        /\ b.VENDOR_ID = left[i].VENDOR_ID)
            IN  IF m = <<>> THEN << withBudget(left[i], NaN) >>
                ELSE [k \in DOMAIN m |->
                        withBudget(left[i], m[k].BUDGET_ALLOCATED_USD)]
    IN  Flatten([i \in DOMAIN left |-> rowsOf(i)], Len(left))

\* line 88
WithVariance(rows) ==
    [i \in DOMAIN rows |->
        [f \in DOMAIN rows[i] \cup {"VARIANCE_USD"} |->
            IF f = "VARIANCE_USD"
            THEN RSub(rows[i].INVOICED_USD, rows[i].BUDGET_ALLOCATED_USD)
            ELSE rows[i][f]]]

\* lines 85-90: the table lists every row of finance_summary
RenderFinance ==
    /\ pc = "finance"
    /\ finance_summary' = WithVariance(LeftMergeBudgets(finance, budgets))
    /\ page' = Append(page, Element("finance_table", finance_summary'))
    /\ pc' = "identity"
    /\ UNCHANGED <<files, cached, sel_vendors, raw, weights, dyn, error>>

\* lines 92-102: the scatter of the selected vendors' identity rows, then
\* the closing caption
RenderIdentity ==
    /\ pc = "identity"
    /\ page' = page \o << Element("identity_chart",
                                  IsIn(identity, sel_vendors)),
                          Element("caption", <<>>) >>
    /\ pc' = "done"
    /\ UNCHANGED <<files, cached, sel_vendors, raw, weights, dyn,
                   finance_summary, error>>

\* Streamlit runs the script again from the top, with an empty page and
\* fresh script variables, when a control changes or the page is reloaded;
\* only the st.cache_data result outlives the run
Rerun ==
    /\ pc \in {"done", "aborted"}
    /\ pc' = "start"
    /\ sel_vendors' = {}
    /\ raw' = <<>>
    /\ weights' = <<>>
    /\ dyn' = <<>>
    /\ finance_summary' = <<>>
    /\ page' = <<>>
    /\ error' = "none"
    /\ UNCHANGED <<files, cached>>

Next ==
    \/ SetPage
    \/ Load
    \/ Controls
    \/ Normalize
    \/ Recompute
    \/ RenderHealth
    \/ RenderDelivery
    \/ RenderFinance
    \/ RenderIdentity
    \/ Rerun

Spec == Init /\ [][Next]_vars

\* ========================================================== properties ===
\* dyn holds the ranked output from the end of Recompute to the end of the run
Ranked == pc \in {"kpis", "delivery", "finance", "identity", "done"}

ElementsOf(kind) == { i \in DOMAIN page : page[i].el = kind }

Count(rows, v) == Len(Matching(rows, v))

DynVendors == { dyn[i].VENDOR_ID : i \in DOMAIN dyn }

AllZeroWeights == raw # <<>> /\ \A i \in 1..5 : raw[i] = R(0)

\* C1: with all five raw weights 0 the run raises no fault: normalisation
\* yields a defined weight vector and the run goes on to score the vendors.
C1_ZeroWeightsNoFault ==
    (AllZeroWeights /\ pc # "normalize") =>
        /\ error = "none"
        /\ weights # <<>>
        /\ \A i \in 1..5 : ~IsNaN(weights[i])

\* C2: every row of the finance-variance table has VarianceUSD = InvoicedUSD
\* - BudgetAllocatedUSD, the budget being the amount of a Budgets row of the
\* same month and vendor, and 0 (variance = invoiced) when there is none.
C2_VarianceOfEveryFinanceRow ==
    \A i \in DOMAIN finance_summary :
        LET r == finance_summary[i]
            b == SelectSeq(budgets, LAMBDA x :
                     x.MONTH = r.MONTH /\ x.VENDOR_ID = r.VENDOR_ID)
        IN  IF b = <<>>
            THEN /\ r.BUDGET_ALLOCATED_USD = R(0)
                 /\ r.VARIANCE_USD = r.INVOICED_USD
            ELSE \E k \in DOMAIN b :
                    /\ r.BUDGET_ALLOCATED_USD = b[k].BUDGET_ALLOCATED_USD
                    /\ r.VARIANCE_USD =
                         RSub(r.INVOICED_USD, b[k].BUDGET_ALLOCATED_USD)

\* C3: a run with an empty selection ends without error and every derived
\* element of the page (metrics, ranking, delivery chart, finance table,
\* identity scatter) is empty or replaced by the "no data" notice.
C3_EmptySelectionAllEmpty ==
    (pc = "done" /\ sel_vendors = {}) =>
        /\ error = "none"
        /\ \A i \in DOMAIN page :
              page[i].el \in {"metrics", "health_table", "delivery_chart",
                              "finance_table", "identity_chart"}
                 => page[i].rows = <<>>

\* C4: the vendors of the ranked output are exactly the selected vendors
\* that health.csv lists, whatever identity, delivery and finance hold.
C4_RankedVendorSet ==
    Ranked => DynVendors = sel_vendors \cap vendors_all

C4_Witness ==
    /\ pc = "done"
    /\ sel_vendors # vendors_all
    /\ \E v \in sel_vendors :
          /\ Count(identity, v) = 0
          /\ Count(delivery, v) = 0
          /\ Count(finance, v) = 0
    /\ \E i \in DOMAIN identity : identity[i].VENDOR_ID \notin vendors_all

\* C5: with a positive weight sum every vendor record is scored within
\* [0, 100], also with CPM above 15, viewability below 0.5 or metrics
\* missing from the joins.
C5_ScoreRange ==
    /\ pc = "recompute" =>
          LET s == Scored(weights)
          IN  \A i \in DOMAIN s :
                /\ ~IsNaN(s[i].HEALTH_SCORE_DYNAMIC)
                /\ RLe(R(0), s[i].HEALTH_SCORE_DYNAMIC)
                /\ RLe(s[i].HEALTH_SCORE_DYNAMIC, R(100))
    /\ \A i \in DOMAIN dyn :
          /\ ~IsNaN(dyn[i].HEALTH_SCORE_DYNAMIC)
          /\ RLe(R(0), dyn[i].HEALTH_SCORE_DYNAMIC)
          /\ RLe(dyn[i].HEALTH_SCORE_DYNAMIC, R(100))

C5_Witness ==
    /\ pc = "done"
    /\ \E i \in DOMAIN dyn :
          /\ RLt(R(TargetCPM), dyn[i].CPM)
          /\ RLt(dyn[i].VIEWABILITY, <<1, 2>>)
          /\ RLt(PreClip(weights, dyn[i]), R(0))
    /\ \E i \in DOMAIN dyn : Count(identity, dyn[i].VENDOR_ID) = 0

\* C6: in the ranked output a record never follows one with a smaller score,
\* and the Top Vendor card names a vendor whose score is the Top Score card.
C6_DescendingAndTop ==
    /\ Ranked =>
          \A i, j \in DOMAIN dyn :
              i < j => RLe(dyn[j].HEALTH_SCORE_DYNAMIC,
                           dyn[i].HEALTH_SCORE_DYNAMIC)
    /\ \A k \in ElementsOf("metrics") :
          page[k].rows # <<>> =>
              /\ page[k].rows[1].top_vendor = dyn[1].VENDOR_ID
              /\ page[k].rows[1].top_score =
                    Fmt1(dyn[1].HEALTH_SCORE_DYNAMIC)
              /\ \A i \in DOMAIN dyn :
                    Fmt1(dyn[i].HEALTH_SCORE_DYNAMIC)
                        <= page[k].rows[1].top_score

C6_Witness ==
    /\ pc = "done"
    /\ Len(dyn) >= 3
    /\ RLt(dyn[Len(dyn)].HEALTH_SCORE_DYNAMIC, dyn[2].HEALTH_SCORE_DYNAMIC)
    /\ RLt(dyn[2].HEALTH_SCORE_DYNAMIC, dyn[1].HEALTH_SCORE_DYNAMIC)

\* C7: records of the ranked output with equal scores keep the relative
\* order they had in the joined frame before sorting.
C7_StableTies ==
    Ranked =>
        \A i, j \in DOMAIN dyn :
            (i < j /\ dyn[i].HEALTH_SCORE_DYNAMIC = dyn[j].HEALTH_SCORE_DYNAMIC)
                => dyn[i].idx < dyn[j].idx

\* C8: a health vendor absent from identity, delivery or finance is scored
\* with the missing metrics at 0: the CPM term is then the whole CPM weight,
\* the dispute term the whole dispute weight, the viewability term minus
\* the viewability weight.
C8_MissingMetricsAreZero ==
    Ranked =>
        \A i \in DOMAIN dyn :
            LET r == dyn[i]
                v == r.VENDOR_ID
                x == RSub(RAdd(weights[3], weights[5]), weights[4])
            IN  /\ Count(identity, v) = 0 =>
                      r.MATCH_RATE = R(0) /\ r.OVERLAP = R(0)
                /\ Count(delivery, v) = 0 =>
                      /\ r.CPM = R(0) /\ r.VIEWABILITY = R(0)
                      /\ CpmTerm(weights, r) = weights[3]
                      /\ ViewTerm(weights, r) = RSub(R(0), weights[4])
                /\ Count(finance, v) = 0 =>
                      /\ r.DISPUTE_RATE = R(0)
                      /\ DisputeTerm(weights, r) = weights[5]
                /\ (Count(identity, v) = 0 /\ Count(delivery, v) = 0
                        /\ Count(finance, v) = 0) =>
                      r.HEALTH_SCORE_DYNAMIC =
                         IF RLt(x, R(0)) THEN R(0)
                         ELSE IF RLt(R(1), x) THEN R(100)
                         ELSE RMul(x, R(100))

C8_Witness ==
    /\ pc = "done"
    /\ \E i \in DOMAIN dyn :
          /\ Count(identity, dyn[i].VENDOR_ID) = 0
          /\ Count(delivery, dyn[i].VENDOR_ID) = 0
          /\ Count(finance, dyn[i].VENDOR_ID) = 0
          /\ RLt(R(0), dyn[i].HEALTH_SCORE_DYNAMIC)
          /\ RLt(dyn[i].HEALTH_SCORE_DYNAMIC, R(100))
    /\ \E i \in DOMAIN dyn :
          /\ Count(delivery, dyn[i].VENDOR_ID) = 0
          /\ Count(finance, dyn[i].VENDOR_ID) > 0

\* C9: when a file fails to load the run emits nothing: no page element,
\* metric, table or chart.
C9_LoadFailureEmitsNothing ==
    error = "load" => page = <<>>

HealthUnique == \A v \in vendors_all : Count(health, v) = 1

\* C10 as stated: with one health row per vendor, every selected health
\* vendor is listed exactly once in the ranked output, for any number of
\* identity, delivery or finance rows of that vendor.
C10_ExactlyOnce ==
    (Ranked /\ HealthUnique) =>
        \A v \in sel_vendors \cap vendors_all : Count(dyn, v) = 1

\* C10 amended: with one health row per vendor, a selected health vendor is
\* listed once per identity row carrying its id, and once when identity has
\* none, for any number of delivery or finance rows of that vendor.
C10_OncePerIdentityRow ==
    (Ranked /\ HealthUnique) =>
        \A v \in sel_vendors \cap vendors_all :
            Count(dyn, v) =
                IF Count(identity, v) = 0 THEN 1 ELSE Count(identity, v)

C10_Witness ==
    /\ pc = "done"
    /\ HealthUnique
    /\ \E v \in sel_vendors : Count(identity, v) >= 2
    /\ \E v \in sel_vendors : Count(identity, v) = 0 /\ Count(finance, v) >= 1
====
